---- MODULE Spec2Model ----
(***************************************************************************)
(* Frame relay of stream_server.py: the StreamReceiver thread              *)
(* (receive_frames / recvall / setup_socket / cleanup_client / stop), the  *)
(* shared frame_queue and the generate_frames consumers.                   *)
(*                                                                         *)
(* Python's queue.Queue is modelled by what its methods do: full(),        *)
(* empty(), qsize() are atomic reads; get() waits while the queue is empty *)
(* and put() waits while it holds maxsize items (neither is given a        *)
(* timeout in the source).  A waiting call is an action whose guard is     *)
(* false.                                                                  *)
(***************************************************************************)
EXTENDS Integers, Sequences, FiniteSets, TLC

\* ---------------------------------------------------------------- bounds
\* Capacity of frame_queue in the model (the source builds Queue(maxsize=10)).
Maxsize == 2
\* Segments the producer may write in one behaviour.
MaxSends == 3
\* Seconds a recv that returns bytes may take (below the 5 s socket timeout).
SlowRecv == 4

\* ------------------------------------------------------ program constants
MAX_FRAME_SIZE == 10000000
RECV_TIMEOUT == 5
TOTAL_TIMEOUT == 10
RECV_CHUNK == 8192
PAUSE == 1

\* The generate_frames generators (one per HTTP client of /video_feed): two,
\* the fewest that can race each other and the receiver for a frame.
Consumers == {1, 2}

VARIABLES
  running,          \* self.running
  server_socket,    \* self.server_socket: "None" | "unbound" | "listening" | "closed"
  current_client,   \* self.current_client: "None" | "sock"
  rpc,              \* position of the receive_frames thread
  n,                \* recvall: bytes requested
  data,             \* recvall: bytearray received so far
  elapsed,          \* recvall: time.time() - start_time, in seconds
  size_data,        \* result of recvall(4)
  frame_size,       \* struct.unpack('!I', size_data)[0]
  frame_data,       \* result of recvall(frame_size)
  exc,              \* exception being propagated to the outer handler
  frame_queue,      \* the global Queue: references (indices into pushed), oldest first
  pushed,           \* every frame object ever put, in put order, with its decoded prefix
  cpc,              \* position of each generate_frames generator
  yielded,          \* the frames each generator has yielded, in order
  sink_open,        \* whether each generator's HTTP client is still connected
  spc,              \* position of the thread running stop()
  port_free,        \* whether bind() on the port succeeds
  conn,             \* the producer's TCP connection: "none" | "pending" | "accepted"
  wire,             \* bytes written by the producer and not yet returned by recv
  eof,              \* the producer has closed its end
  nsent,            \* segments written so far
  evicted,          \* history: the frames the receiver's own get() removed
  rx,               \* history: the bytes recv returned in this pass of the outer loop
  conn_base,        \* history: Len(pushed) when this pass of the outer loop began
  quiet,            \* history: seconds this pass has waited since it last got a byte
  b_rpc,            \* backup file: position of its receive_frames thread
  b_conn,           \* backup file: the producer's connection to it
  b_wire,           \* backup file: bytes written to it and not yet returned by recv
  b_eof,            \* backup file: the producer has closed its end
  b_n,              \* backup file: recvall's n
  b_data,           \* backup file: recvall's data
  b_size_data,      \* backup file: size_data
  b_frame_size,     \* backup file: frame_size
  b_frame_data,     \* backup file: frame_data
  b_frame_queue,    \* backup file: its frame_queue
  b_pushed          \* backup file: every frame put, in put order

backupVars == <<b_rpc, b_conn, b_wire, b_eof, b_n, b_data, b_size_data, b_frame_size,
                b_frame_data, b_frame_queue, b_pushed>>

vars == <<running, server_socket, current_client, rpc, n, data, elapsed, size_data,
          frame_size, frame_data, exc, frame_queue, pushed, cpc, yielded, sink_open, spc,
          port_free, conn, wire, eof, nsent, evicted, rx, conn_base, quiet, backupVars>>

recvVars == <<n, data, elapsed>>
frameVars == <<size_data, frame_size, frame_data>>
queueVars == <<frame_queue, pushed>>
consumerVars == <<cpc, yielded, sink_open>>
producerVars == <<conn, wire, eof, nsent>>
histVars == <<evicted, rx, conn_base, quiet>>

\* ------------------------------------------------------------ Python values
\* A bytes-or-None value, as returned by recvall.
None == [isNone |-> TRUE, bytes |-> <<>>]
Bytes(b) == [isNone |-> FALSE, bytes |-> b]
\* Python's `not v`: None and the empty bytearray are both falsy.
Not(v) == v.isNone \/ Len(v.bytes) = 0

Min(a, b) == IF a < b THEN a ELSE b
Take(s, k) == SubSeq(s, 1, k)
Drop(s, k) == SubSeq(s, k + 1, Len(s))

\* struct.unpack('!I', b)[0]: big-endian unsigned 32-bit.  TLC's integers are
\* 32-bit signed, so a value of 2^31 or more (first byte >= 128) is given as
\* 2^31 - 1: like every such value it is far above the maximum frame size and
\* is only ever compared with it.
Unpack(b) ==
  IF b[1] >= 128 THEN 2147483647
  ELSE b[1] * 16777216 + b[2] * 65536 + b[3] * 256 + b[4]

\* --------------------------------------------------------------- the queue
\* A queue built one slot larger than the capacity N.
frame_queue_maxsize_larger == Maxsize + 1
frame_queue_maxsize == Maxsize
Full(q) == Len(q) >= frame_queue_maxsize
Empty(q) == Len(q) = 0
\* get() removes and returns the item at GetIndex (the oldest); put(x) appends.
GetIndex_newest(q) == Len(q)
GetIndex(q) == 1
\* A get() that returns the newest item while it removes the oldest.
QueueGetItem_newest(q) == q[Len(q)]
QueueGetItem(q) == q[GetIndex(q)]
\* A get() that hands out the item and leaves it in the queue.
QueueGetRest_keep(q) == q
QueueGetRest(q) == SubSeq(q, 1, GetIndex(q) - 1) \o SubSeq(q, GetIndex(q) + 1, Len(q))
QueuePut_front(q, x) == <<x>> \o q
QueuePut(q, x) == Append(q, x)

\* /status
status == [queue_size |-> Len(frame_queue), server_running |-> running]

\* ------------------------------------------------------------ the producer
\* The byte that marks the seq-th send: distinct from every byte of a prefix,
\* so a payload tells which sends it came from.
StampBase == 10
Stamp(seq) == StampBase + seq

\* What the producer may write in one send: a whole 1-byte frame, the head of
\* a 2-byte frame, a lone byte, an empty frame, a prefix of exactly the
\* maximum frame size (0x00989680) and a prefix one above it.
Segments(seq) ==
  { <<0, 0, 0, 1, Stamp(seq)>>, <<0, 0, 0, 2, Stamp(seq)>>, <<Stamp(seq)>>,
    <<0, 0, 0, 0>>, <<0, 152, 150, 128>>, <<0, 152, 150, 129>> }

ProducerConnect ==
  /\ conn = "none"
  /\ server_socket = "listening"
  /\ conn' = "pending"
  /\ wire' = <<>>
  /\ eof' = FALSE
  /\ UNCHANGED <<backupVars, running, server_socket, current_client, rpc, recvVars, frameVars,
                 exc, queueVars, consumerVars, spc, port_free, nsent,
                 histVars>>

ProducerSend ==
  /\ conn \in {"pending", "accepted"}
  /\ ~eof
  /\ nsent < MaxSends
  /\ \E seg \in Segments(nsent + 1) : wire' = wire \o seg
  /\ nsent' = nsent + 1
  /\ UNCHANGED <<backupVars, running, server_socket, current_client, rpc, recvVars, frameVars,
                 exc, queueVars, consumerVars, spc, port_free, conn, eof,
                 histVars>>

ProducerClose ==
  /\ conn \in {"pending", "accepted"}
  /\ ~eof
  /\ eof' = TRUE
  /\ UNCHANGED <<backupVars, running, server_socket, current_client, rpc, recvVars, frameVars,
                 exc, queueVars, consumerVars, spc, port_free, conn, wire, nsent,
                 histVars>>

\* Another process releases the port.
PortFreed ==
  /\ ~port_free
  /\ port_free' = TRUE
  /\ UNCHANGED <<backupVars, running, server_socket, current_client, rpc, recvVars, frameVars,
                 exc, queueVars, consumerVars, spc, producerVars,
                 histVars>>

\* ------------------------------------------------------------ the receiver
\* setup_socket: the value of self.server_socket it leaves behind.  The new
\* socket object is assigned before bind, so a failed bind leaves an unbound
\* socket in the attribute; only a failed socket() leaves the old value.
SetupSocketResult(old, created, free) ==
  IF ~created THEN (IF old = "None" THEN "None" ELSE "closed")
  ELSE IF free THEN "listening"
  ELSE "unbound"

\* A cleanup that drops the reference and leaves the socket open.
CleanupClient_forget ==
  /\ current_client' = "None"
  /\ UNCHANGED <<conn, wire, eof>>

\* cleanup_client: close the current connection, if any, and forget it.
CleanupClient ==
  IF current_client # "None"
  THEN /\ current_client' = "None"
       /\ conn' = IF conn = "accepted" THEN "none" ELSE conn
       /\ wire' = IF conn = "accepted" THEN <<>> ELSE wire
       /\ eof' = IF conn = "accepted" THEN FALSE ELSE eof
  ELSE UNCHANGED <<current_client, conn, wire, eof>>

\* An exception that no handler catches: it ends the thread.
Raise_uncaught(e) ==
  /\ exc' = e
  /\ rpc' = "done"

\* An exception e is raised inside the outer try: control reaches its handler.
Raise(e) ==
  /\ exc' = e
  /\ rpc' = "except"

\* while self.running: / if not self.server_socket:
LoopTop ==
  /\ rpc = "loop"
  /\ rpc' = IF ~running THEN "done"
            ELSE IF server_socket = "None" THEN "setup"
            ELSE "accept"
  /\ UNCHANGED <<backupVars, running, server_socket, current_client, recvVars, frameVars, exc,
                 queueVars, consumerVars, spc, port_free, producerVars,
                 histVars>>

\* if not self.setup_socket(): continue   (continue runs the finally clause)
SetupSocket ==
  /\ rpc = "setup"
  /\ \E created \in BOOLEAN :
       /\ server_socket' = SetupSocketResult(server_socket, created, port_free)
       /\ rpc' = IF server_socket' = "listening" THEN "accept" ELSE "finally"
  /\ UNCHANGED <<backupVars, running, current_client, recvVars, frameVars, exc, queueVars,
                 consumerVars, spc, port_free, producerVars,
                 histVars>>

\* self.current_client, addr = self.server_socket.accept()
Accept ==
  /\ rpc = "accept"
  /\ server_socket = "listening"
  /\ conn = "pending"
  /\ current_client' = "sock"
  /\ conn' = "accepted"
  /\ rx' = <<>>
  /\ conn_base' = Len(pushed)
  /\ quiet' = 0
  /\ rpc' = "inner"
  /\ UNCHANGED <<backupVars, running, server_socket, recvVars, frameVars, exc, queueVars,
                 consumerVars, spc, port_free, wire, eof, nsent, evicted>>

\* accept() on the listening socket times out (settimeout(30)).
AcceptTimeout ==
  /\ rpc = "accept"
  /\ server_socket = "listening"
  /\ conn # "pending"
  /\ Raise("timeout")
  /\ UNCHANGED <<backupVars, running, server_socket, current_client, recvVars, frameVars,
                 queueVars, consumerVars, spc, port_free, producerVars,
                 histVars>>

\* accept() on a socket that is not listening (never bound, or closed) raises.
AcceptError ==
  /\ rpc = "accept"
  /\ server_socket # "listening"
  /\ Raise("error")
  /\ UNCHANGED <<backupVars, running, server_socket, current_client, recvVars, frameVars,
                 queueVars, consumerVars, spc, port_free, producerVars,
                 histVars>>

\* while self.running: size_data = self.recvall(self.current_client, 4)
Inner ==
  /\ rpc = "inner"
  /\ IF running
     THEN /\ n' = 4
          /\ data' = <<>>
          /\ elapsed' = 0
          /\ rpc' = "recv_size"
     ELSE /\ rpc' = "finally"
          /\ UNCHANGED recvVars
  /\ UNCHANGED <<backupVars, running, server_socket, current_client, frameVars, exc, queueVars,
                 consumerVars, spc, port_free, producerVars,
                 histVars>>

InRecvall == rpc \in {"recv_size", "recv_frame"}

\* recvall's frame is left: its locals are gone.
RecvallExit ==
  /\ n' = 0
  /\ data' = <<>>
  /\ elapsed' = 0

\* recvall returns v to its caller.
RecvallReturn(v) ==
  /\ RecvallExit
  /\ IF rpc = "recv_size"
     THEN /\ size_data' = v
          /\ rpc' = "got_size"
          /\ UNCHANGED <<frame_size, frame_data, exc>>
     ELSE /\ frame_data' = v
          /\ rpc' = "got_frame"
          /\ UNCHANGED <<size_data, frame_size, exc>>

\* recvall handing back whatever it has when the 10 s window closes.
RecvallLoop_partial(d, e) ==
  IF Len(d) < n /\ e < TOTAL_TIMEOUT
  THEN /\ data' = d
       /\ elapsed' = e
       /\ UNCHANGED <<n, rpc, frameVars, exc>>
  ELSE RecvallReturn(Bytes(d))

\* recvall without its 10 s window: it reads until it has n bytes.
RecvallLoop_nowindow(d, e) ==
  IF Len(d) < n
  THEN /\ data' = d
       /\ elapsed' = e
       /\ UNCHANGED <<n, rpc, frameVars, exc>>
  ELSE RecvallReturn(Bytes(d))

\* The loop test and what follows the loop, with d received after e seconds:
\* go round again, raise socket.timeout on incomplete data, or return the data.
RecvallLoop(d, e) ==
  IF Len(d) < n /\ e < TOTAL_TIMEOUT
  THEN /\ data' = d
       /\ elapsed' = e
       /\ UNCHANGED <<n, rpc, frameVars, exc>>
  ELSE IF Len(d) < n
  THEN /\ RecvallExit
       /\ Raise("timeout")
       /\ UNCHANGED frameVars
  ELSE RecvallReturn(Bytes(d))

\* packet = sock.recv(min(n - len(data), 8192)) returns 1..that many bytes.
RecvBytes ==
  /\ InRecvall
  /\ conn = "accepted"
  /\ wire # <<>>
  /\ \E k \in 1..Min(Min(n - Len(data), RECV_CHUNK), Len(wire)), d \in {0, SlowRecv} :
       /\ wire' = Drop(wire, k)
       /\ rx' = rx \o Take(wire, k)
       /\ quiet' = 0
       /\ RecvallLoop(data \o Take(wire, k), elapsed + d)
  /\ UNCHANGED <<backupVars, running, server_socket, current_client, queueVars, consumerVars,
                 spc, port_free, conn, eof, nsent, evicted, conn_base>>

\* recv returns b'' (the producer closed its end): return None.
RecvEOF ==
  /\ InRecvall
  /\ conn = "accepted"
  /\ wire = <<>>
  /\ eof
  /\ RecvallReturn(None)
  /\ UNCHANGED <<backupVars, running, server_socket, current_client, queueVars,
                 consumerVars, spc, port_free, producerVars,
                 histVars>>

\* recv raises socket.timeout after 5 s without a byte: continue.
RecvTimeout ==
  /\ InRecvall
  /\ conn = "accepted"
  /\ wire = <<>>
  /\ ~eof
  /\ RecvallLoop(data, elapsed + RECV_TIMEOUT)
  /\ quiet' = quiet + RECV_TIMEOUT
  /\ UNCHANGED <<backupVars, running, server_socket, current_client, queueVars,
                 consumerVars, spc, port_free, producerVars,
                 evicted, rx, conn_base>>

\* recv on a socket that stop() has closed raises.
RecvError ==
  /\ InRecvall
  /\ conn # "accepted"
  /\ RecvallExit
  /\ Raise("error")
  /\ UNCHANGED <<backupVars, running, server_socket, current_client, frameVars,
                 queueVars, consumerVars, spc, port_free, producerVars,
                 histVars>>

\* The sanity check left out.
TooLarge_unchecked(size) == FALSE

\* if frame_size > 10000000
TooLarge(size) == size > MAX_FRAME_SIZE

\* if not size_data: raise / unpack / sanity check / recvall(frame_size).
\* struct.unpack raises struct.error unless it is given exactly 4 bytes.
\* recvall(0) never enters its loop and returns the empty bytearray.
GotSize ==
  /\ rpc = "got_size"
  /\ IF Not(size_data)
     THEN /\ Raise("error")
          /\ UNCHANGED <<recvVars, frame_size, frame_data>>
     ELSE IF Len(size_data.bytes) # 4
     THEN /\ Raise("struct.error")
          /\ UNCHANGED <<recvVars, frame_size, frame_data>>
     ELSE /\ frame_size' = Unpack(size_data.bytes)
          /\ IF TooLarge(frame_size')
             THEN /\ Raise("ValueError")
                  /\ UNCHANGED <<recvVars, frame_data>>
             ELSE IF frame_size' = 0
             THEN /\ frame_data' = Bytes(<<>>)
                  /\ rpc' = "got_frame"
                  /\ UNCHANGED <<recvVars, exc>>
             ELSE /\ n' = frame_size'
                  /\ data' = <<>>
                  /\ elapsed' = 0
                  /\ rpc' = "recv_frame"
                  /\ UNCHANGED <<frame_data, exc>>
  /\ UNCHANGED <<backupVars, running, server_socket, current_client, size_data, queueVars,
                 consumerVars, spc, port_free, producerVars,
                 histVars>>

\* if not frame_data: raise / if frame_queue.full():
GotFrame ==
  /\ rpc = "got_frame"
  /\ IF Not(frame_data)
     THEN Raise("error")
     ELSE /\ rpc' = IF Full(frame_queue) THEN "evict" ELSE "put"
          /\ UNCHANGED exc
  /\ UNCHANGED <<backupVars, running, server_socket, current_client, recvVars, frameVars,
                 queueVars, consumerVars, spc, port_free, producerVars,
                 histVars>>

\* frame_queue.get(): waits while the queue is empty.
Evict ==
  /\ rpc = "evict"
  /\ ~Empty(frame_queue)
  /\ evicted' = evicted \cup {QueueGetItem(frame_queue)}
  /\ frame_queue' = QueueGetRest(frame_queue)
  /\ rpc' = "put"
  /\ UNCHANGED <<backupVars, running, server_socket, current_client, recvVars, frameVars, exc,
                 pushed, consumerVars, spc, port_free, producerVars, rx, conn_base,
                 quiet>>

\* frame_queue.put(frame_data): waits while the queue is full.  The frame
\* object is recorded with the prefix it was read under; the iteration's
\* locals are dead after the put and are dropped.
Put ==
  /\ rpc = "put"
  /\ ~Full(frame_queue)
  /\ pushed' = Append(pushed, [size |-> frame_size, data |-> frame_data.bytes])
  /\ frame_queue' = QueuePut(frame_queue, Len(pushed'))
  /\ size_data' = None
  /\ frame_size' = 0
  /\ frame_data' = None
  /\ rpc' = "inner"
  /\ UNCHANGED <<backupVars, running, server_socket, current_client, recvVars, exc,
                 consumerVars, spc, port_free, producerVars,
                 histVars>>

\* except Exception: self.cleanup_client(); time.sleep(1)
\* The values left in size_data, frame_size and frame_data are dead from here
\* on (each is assigned again before it is read), so they are dropped.
Except ==
  /\ rpc = "except"
  /\ CleanupClient
  /\ exc' = "none"
  /\ size_data' = None
  /\ frame_size' = 0
  /\ frame_data' = None
  /\ quiet' = quiet + PAUSE
  /\ rpc' = "finally"
  /\ UNCHANGED <<backupVars, running, server_socket, recvVars, queueVars,
                 consumerVars, spc, port_free, nsent,
                 evicted, rx, conn_base>>

\* A finally clause that also empties the buffer.
Finally_flush ==
  /\ rpc = "finally"
  /\ CleanupClient
  /\ frame_queue' = <<>>
  /\ rx' = <<>>
  /\ conn_base' = Len(pushed)
  /\ quiet' = 0
  /\ rpc' = "loop"
  /\ UNCHANGED <<backupVars, running, server_socket, recvVars, frameVars, exc, pushed,
                 consumerVars, spc, port_free, nsent, evicted>>

\* finally: self.cleanup_client()
Finally ==
  /\ rpc = "finally"
  /\ CleanupClient
  /\ rx' = <<>>
  /\ conn_base' = Len(pushed)
  /\ quiet' = 0
  /\ rpc' = "loop"
  /\ UNCHANGED <<backupVars, running, server_socket, recvVars, frameVars, exc, queueVars,
                 consumerVars, spc, port_free, nsent, evicted>>

\* ------------------------------------------------------------------ stop()
StopRunning ==
  /\ spc = "idle"
  /\ running' = FALSE
  /\ spc' = "cleanup"
  /\ UNCHANGED <<backupVars, server_socket, current_client, rpc, recvVars, frameVars, exc,
                 queueVars, consumerVars, port_free, producerVars,
                 histVars>>

StopCleanup ==
  /\ spc = "cleanup"
  /\ CleanupClient
  /\ spc' = "close"
  /\ UNCHANGED <<backupVars, running, server_socket, rpc, recvVars, frameVars, exc, queueVars,
                 consumerVars, port_free, nsent,
                 histVars>>

\* if self.server_socket: shutdown, close.  A connection still waiting in the
\* listen queue is reset.
StopClose ==
  /\ spc = "close"
  /\ IF server_socket # "None"
     THEN /\ server_socket' = "closed"
          /\ conn' = IF conn = "pending" THEN "none" ELSE conn
          /\ wire' = IF conn = "pending" THEN <<>> ELSE wire
          /\ eof' = IF conn = "pending" THEN FALSE ELSE eof
     ELSE UNCHANGED <<server_socket, conn, wire, eof>>
  /\ spc' = "done"
  /\ UNCHANGED <<backupVars, running, current_client, rpc, recvVars, frameVars, exc, queueVars,
                 consumerVars, port_free, nsent,
                 histVars>>

\* --------------------------------------------------------- generate_frames
\* if not frame_queue.empty():
ConsumerPoll(c) ==
  /\ cpc[c] = "poll"
  /\ ~Empty(frame_queue)
  /\ cpc' = [cpc EXCEPT ![c] = "get"]
  /\ UNCHANGED <<backupVars, running, server_socket, current_client, rpc, recvVars, frameVars,
                 exc, queueVars, yielded, sink_open, spc, port_free, producerVars,
                 histVars>>

\* else: time.sleep(0.01)
ConsumerIdle(c) ==
  /\ cpc[c] = "poll"
  /\ Empty(frame_queue)
  /\ UNCHANGED vars

\* frame = frame_queue.get(); yield ...   (get waits while the queue is empty)
\* The generator is suspended at the yield while the response writes the chunk
\* to the client.  It is resumed if the write succeeds; if the client is gone
\* the write fails and the generator is closed there, at the yield, the only
\* place where a generator can be closed.
ConsumerGet(c) ==
  /\ cpc[c] = "get"
  /\ ~Empty(frame_queue)
  /\ yielded' = [yielded EXCEPT ![c] = Append(@, QueueGetItem(frame_queue))]
  /\ frame_queue' = QueueGetRest(frame_queue)
  /\ cpc' = [cpc EXCEPT ![c] = IF sink_open[c] THEN "poll" ELSE "closed"]
  /\ UNCHANGED <<backupVars, running, server_socket, current_client, rpc, recvVars, frameVars,
                 exc, pushed, sink_open, spc, port_free, producerVars,
                 histVars>>

\* The HTTP client of generator c disconnects.
SinkClose(c) ==
  /\ sink_open[c]
  /\ sink_open' = [sink_open EXCEPT ![c] = FALSE]
  /\ UNCHANGED <<backupVars, running, server_socket, current_client, rpc, recvVars, frameVars,
                 exc, queueVars, cpc, yielded, spc, port_free, producerVars,
                 histVars>>

\* --------------------------------------------------------- specification
\* The state after `receiver = StreamReceiver(5555)` and the thread's start:
\* __init__ has run setup_socket once.
Init ==
  /\ running = TRUE
  /\ port_free \in BOOLEAN
  /\ \E created \in BOOLEAN :
       server_socket = SetupSocketResult("None", created, port_free)
  /\ current_client = "None"
  /\ rpc = "loop"
  /\ n = 0
  /\ data = <<>>
  /\ elapsed = 0
  /\ size_data = None
  /\ frame_size = 0
  /\ frame_data = None
  /\ exc = "none"
  /\ frame_queue = <<>>
  /\ pushed = <<>>
  /\ cpc = [c \in Consumers |-> "poll"]
  /\ yielded = [c \in Consumers |-> <<>>]
  /\ sink_open = [c \in Consumers |-> TRUE]
  /\ spc = "idle"
  /\ conn = "none"
  /\ wire = <<>>
  /\ eof = FALSE
  /\ nsent = 0
  /\ evicted = {}
  /\ rx = <<>>
  /\ conn_base = 0
  /\ quiet = 0
  /\ b_rpc = "accept"
  /\ b_conn = "none"
  /\ b_wire = <<>>
  /\ b_eof = FALSE
  /\ b_n = 0
  /\ b_data = <<>>
  /\ b_size_data = None
  /\ b_frame_size = 0
  /\ b_frame_data = None
  /\ b_frame_queue = <<>>
  /\ b_pushed = <<>>

Receiver ==
  \/ LoopTop \/ SetupSocket \/ Accept \/ AcceptTimeout \/ AcceptError \/ Inner
  \/ RecvBytes \/ RecvEOF \/ RecvTimeout \/ RecvError \/ GotSize \/ GotFrame
  \/ Evict \/ Put \/ Except \/ Finally

Stop == StopRunning \/ StopCleanup \/ StopClose

Consumer == \E c \in Consumers : ConsumerPoll(c) \/ ConsumerIdle(c) \/ ConsumerGet(c)

Client == \E c \in Consumers : SinkClose(c)

Producer == ProducerConnect \/ ProducerSend \/ ProducerClose \/ PortFreed

Next == Receiver \/ Stop \/ Consumer \/ Producer

Spec == Init /\ [][Next]_vars

\* ------------------------------ stream_server_working_backup.py, side by side
\* The receive_frames thread of the backup file on a port of its own (its
\* __init__ has bound and listens, or the process has exited).  It has no
\* timeouts, no size check, no stop(); accept() and recv() wait without limit.
primaryVars == <<running, server_socket, current_client, rpc, recvVars, frameVars,
                 exc, queueVars, consumerVars, spc, port_free, producerVars, histVars>>

\* client_socket, addr = self.server_socket.accept()
BackupAccept ==
  /\ b_rpc = "accept"
  /\ b_conn = "pending"
  /\ b_conn' = "accepted"
  /\ b_n' = 4
  /\ b_data' = <<>>
  /\ b_rpc' = "recv_size"
  /\ UNCHANGED <<primaryVars, b_wire, b_eof, b_size_data, b_frame_size, b_frame_data,
                 b_frame_queue, b_pushed>>

\* recvall returns v to its caller.
BackupRecvallReturn(v) ==
  /\ b_n' = 0
  /\ b_data' = <<>>
  /\ IF b_rpc = "recv_size"
     THEN /\ b_size_data' = v
          /\ b_rpc' = "got_size"
          /\ UNCHANGED b_frame_data
     ELSE /\ b_frame_data' = v
          /\ b_rpc' = "got_frame"
          /\ UNCHANGED b_size_data

\* packet = sock.recv(n - len(data)); data.extend(packet); while len(data) < n
BackupRecvBytes ==
  /\ b_rpc \in {"recv_size", "recv_frame"}
  /\ b_wire # <<>>
  /\ \E k \in 1..Min(b_n - Len(b_data), Len(b_wire)) :
       /\ b_wire' = Drop(b_wire, k)
       /\ IF Len(b_data) + k < b_n
          THEN /\ b_data' = b_data \o Take(b_wire, k)
               /\ UNCHANGED <<b_rpc, b_n, b_size_data, b_frame_data>>
          ELSE BackupRecvallReturn(Bytes(b_data \o Take(b_wire, k)))
  /\ UNCHANGED <<primaryVars, b_conn, b_eof, b_frame_size, b_frame_queue, b_pushed>>

\* if not packet: return None
BackupRecvEOF ==
  /\ b_rpc \in {"recv_size", "recv_frame"}
  /\ b_wire = <<>>
  /\ b_eof
  /\ BackupRecvallReturn(None)
  /\ UNCHANGED <<primaryVars, b_conn, b_wire, b_eof, b_frame_size, b_frame_queue,
                 b_pushed>>

\* if not size_data: break / unpack / recvall(client_socket, frame_size)
BackupGotSize ==
  /\ b_rpc = "got_size"
  /\ IF Not(b_size_data)
     THEN /\ b_rpc' = "close"
          /\ UNCHANGED <<b_n, b_data, b_frame_size, b_frame_data>>
     ELSE /\ b_frame_size' = Unpack(b_size_data.bytes)
          /\ IF b_frame_size' = 0
             THEN /\ b_frame_data' = Bytes(<<>>)
                  /\ b_rpc' = "got_frame"
                  /\ UNCHANGED <<b_n, b_data>>
             ELSE /\ b_n' = b_frame_size'
                  /\ b_data' = <<>>
                  /\ b_rpc' = "recv_frame"
                  /\ UNCHANGED b_frame_data
  /\ UNCHANGED <<primaryVars, b_conn, b_wire, b_eof, b_size_data, b_frame_queue,
                 b_pushed>>

\* if not frame_data: break / if frame_queue.full():
BackupGotFrame ==
  /\ b_rpc = "got_frame"
  /\ b_rpc' = IF Not(b_frame_data) THEN "close"
              ELSE IF Full(b_frame_queue) THEN "evict"
              ELSE "put"
  /\ UNCHANGED <<primaryVars, b_conn, b_wire, b_eof, b_n, b_data, b_size_data,
                 b_frame_size, b_frame_data, b_frame_queue, b_pushed>>

\* frame_queue.get()
BackupEvict ==
  /\ b_rpc = "evict"
  /\ ~Empty(b_frame_queue)
  /\ b_frame_queue' = QueueGetRest(b_frame_queue)
  /\ b_rpc' = "put"
  /\ UNCHANGED <<primaryVars, b_conn, b_wire, b_eof, b_n, b_data, b_size_data,
                 b_frame_size, b_frame_data, b_pushed>>

\* frame_queue.put(frame_data), and round the inner loop to recvall(.., 4)
BackupPut ==
  /\ b_rpc = "put"
  /\ ~Full(b_frame_queue)
  /\ b_pushed' = Append(b_pushed, [size |-> b_frame_size, data |-> b_frame_data.bytes])
  /\ b_frame_queue' = QueuePut(b_frame_queue, Len(b_pushed'))
  /\ b_size_data' = None
  /\ b_frame_size' = 0
  /\ b_frame_data' = None
  /\ b_n' = 4
  /\ b_data' = <<>>
  /\ b_rpc' = "recv_size"
  /\ UNCHANGED <<primaryVars, b_conn, b_wire, b_eof>>

\* finally: client_socket.close(), and round the outer loop to accept()
BackupClose ==
  /\ b_rpc = "close"
  /\ b_conn' = "none"
  /\ b_wire' = <<>>
  /\ b_eof' = FALSE
  /\ b_size_data' = None
  /\ b_frame_size' = 0
  /\ b_frame_data' = None
  /\ b_rpc' = "accept"
  /\ UNCHANGED <<primaryVars, b_n, b_data, b_frame_queue, b_pushed>>

Backup ==
  \/ BackupAccept \/ BackupRecvBytes \/ BackupRecvEOF \/ BackupGotSize
  \/ BackupGotFrame \/ BackupEvict \/ BackupPut \/ BackupClose

\* One producer feeding both programs the same byte stream: it connects to
\* both, writes every segment to both and closes both at once.
PairConnect ==
  /\ conn = "none"
  /\ b_conn = "none"
  /\ server_socket = "listening"
  /\ conn' = "pending"
  /\ b_conn' = "pending"
  /\ wire' = <<>>
  /\ b_wire' = <<>>
  /\ eof' = FALSE
  /\ b_eof' = FALSE
  /\ UNCHANGED <<running, server_socket, current_client, rpc, recvVars, frameVars,
                 exc, queueVars, consumerVars, spc, port_free, nsent, histVars,
                 b_rpc, b_n, b_data, b_size_data, b_frame_size, b_frame_data,
                 b_frame_queue, b_pushed>>

PairSend ==
  /\ conn \in {"pending", "accepted"}
  /\ b_conn \in {"pending", "accepted"}
  /\ ~eof
  /\ ~b_eof
  /\ nsent < MaxSends
  /\ \E seg \in Segments(nsent + 1) :
       /\ wire' = wire \o seg
       /\ b_wire' = b_wire \o seg
  /\ nsent' = nsent + 1
  /\ UNCHANGED <<running, server_socket, current_client, rpc, recvVars, frameVars,
                 exc, queueVars, consumerVars, spc, port_free, conn, eof, histVars,
                 b_rpc, b_conn, b_eof, b_n, b_data, b_size_data, b_frame_size,
                 b_frame_data, b_frame_queue, b_pushed>>

\* The producer closes what it still has open.
PairClose ==
  /\ (conn \in {"pending", "accepted"} /\ ~eof) \/ (b_conn \in {"pending", "accepted"} /\ ~b_eof)
  /\ eof' = IF conn \in {"pending", "accepted"} THEN TRUE ELSE eof
  /\ b_eof' = IF b_conn \in {"pending", "accepted"} THEN TRUE ELSE b_eof
  /\ UNCHANGED <<running, server_socket, current_client, rpc, recvVars, frameVars,
                 exc, queueVars, consumerVars, spc, port_free, conn, wire, nsent,
                 histVars, b_rpc, b_conn, b_wire, b_n, b_data, b_size_data,
                 b_frame_size, b_frame_data, b_frame_queue, b_pushed>>

PairProducer == PairConnect \/ PairSend \/ PairClose \/ PortFreed

\* Both receive loops on one producer.  The generators are left out: the
\* frames a loop pushes do not depend on what is popped.
PairNext == Receiver \/ Stop \/ Backup \/ PairProducer

PairSpec == Init /\ [][PairNext]_vars

\* The same program with HTTP clients that disconnect.  A generator that has
\* been closed takes no further step, which for the receiver, the producer and
\* the other generators is a generator that is never scheduled again: Spec
\* has those behaviours already, so disconnects are left to this
\* specification.  Each generator runs in a server thread of its own and is
\* scheduled as long as it can take a step.
NextClient == Next \/ Client

ClientSpec ==
  /\ Init
  /\ [][NextClient]_vars
  /\ WF_vars(Receiver)
  /\ \A c \in Consumers : WF_vars(ConsumerPoll(c) \/ ConsumerGet(c))

TypeOK ==
  /\ running \in BOOLEAN
  /\ server_socket \in {"None", "unbound", "listening", "closed"}
  /\ current_client \in {"None", "sock"}
  /\ Len(frame_queue) <= Len(pushed)
  /\ (current_client = "sock") => (conn = "accepted")

\* ------------------------------------------------------------------ claims
RECURSIVE SumLen(_, _)
SumLen(f, S) ==
  IF S = {} THEN 0
  ELSE LET c == CHOOSE x \in S : TRUE IN Len(f[c]) + SumLen(f, S \ {c})

\* Frames put and not yet removed by an eviction or a consumer.
Occupancy == Len(pushed) - Cardinality(evicted) - SumLen(yielded, Consumers)

\* C1: in every reachable state the buffer holds between 0 and N frames, and
\* the queue_size that /status reports is the number of frames put and not yet
\* removed.
C1_DepthWithinCapacity ==
  /\ status.queue_size \in 0..Maxsize
  /\ status.queue_size = Occupancy

\* The buffer is full again after a consumer has popped a frame.
C1_Witness ==
  /\ status.queue_size = Maxsize
  /\ \E c \in Consumers : yielded[c] # <<>>

NoPops == \A c \in Consumers : yielded[c] = <<>>
LastPushed(k, m) == [i \in 1..m |-> k - m + i]

\* C2: after k pushes with no consumer pop, starting from the empty buffer,
\* the buffer holds exactly the last min(k, N) pushed frames in push order
\* (outside the window between a push's eviction and its append).
C2_DropOldest ==
  (NoPops /\ rpc # "put") =>
     frame_queue = LastPushed(Len(pushed), Min(Len(pushed), Maxsize))

\* N + 1 pushes and no pop: the first frame has been evicted.
C2_Witness ==
  /\ NoPops
  /\ rpc = "inner"
  /\ Len(pushed) = Maxsize + 1
  /\ evicted = {1}

\* C3: the receiver's push never waits on the buffer: its get() always finds
\* an entry to evict and its put() always finds room.
C3_PushNeverBlocks ==
  /\ rpc = "evict" => ~Empty(frame_queue)
  /\ rpc = "put" => ~Full(frame_queue)

\* C4: a consumer's get() never waits: whenever a generator is about to call
\* frame_queue.get() there is a frame for it.
C4_PopNeverBlocks ==
  \A c \in Consumers : cpc[c] = "get" => ~Empty(frame_queue)

\* The wire format, read off a byte string: the payloads of the complete
\* messages [uint32 N][N bytes] (N at most the maximum) that s starts with,
\* and what is left of s after them.
RECURSIVE Deframe(_)
Deframe(s) ==
  IF Len(s) < 4 THEN <<>>
  ELSE LET size == Unpack(Take(s, 4)) IN
       IF size > MAX_FRAME_SIZE \/ Len(s) < 4 + size THEN <<>>
       ELSE <<SubSeq(s, 5, 4 + size)>> \o Deframe(Drop(s, 4 + size))

RECURSIVE Residue(_)
Residue(s) ==
  IF Len(s) < 4 THEN s
  ELSE LET size == Unpack(Take(s, 4)) IN
       IF size > MAX_FRAME_SIZE \/ Len(s) < 4 + size THEN s
       ELSE Residue(Drop(s, 4 + size))

\* The payloads of the frames pushed in this pass of the outer loop.
ConnFrames == [i \in 1..(Len(pushed) - conn_base) |-> pushed[conn_base + i].data]

\* From the arrival of a message's last byte (for an empty message, the last
\* byte of its prefix) to the end of its push.
Pushing == rpc \in {"got_size", "got_frame", "evict", "put"}

\* C5: every complete message the receiver has read, whatever its length
\* (0 included) and however recv split it, has been pushed as one frame equal
\* to its payload once the receiver has dealt with it.
C5_DeframeRoundTrip == ~Pushing => ConnFrames = Deframe(rx)

\* The same for messages of length 1 and more (not a claim's formula: a check
\* that only the empty message separates the code from C5).
NoEmptyMessage(s) == \A i \in 1..Len(Deframe(s)) : Len(Deframe(s)[i]) > 0
RoundTripNonEmpty == (~Pushing /\ NoEmptyMessage(rx)) => ConnFrames = Deframe(rx)

\* Once the bytes read on the connection hold a prefix above the maximum, the
\* receiver is at or past its sanity check, has read nothing after the prefix
\* and has pushed no frame for it.
NothingReadAfterOversize ==
  LET r == Residue(rx) IN
    (Len(r) >= 4 /\ Unpack(Take(r, 4)) > MAX_FRAME_SIZE) =>
       /\ Len(r) = 4
       /\ rpc \in {"got_size", "except", "finally"}
       /\ Len(ConnFrames) = Len(Deframe(rx))

\* The step the receiver takes on a decoded prefix: above the maximum it
\* raises, leaving buffer and socket alone; at exactly the maximum it starts
\* reading that many payload bytes.
PrefixStep ==
  (rpc = "got_size" /\ ~size_data.isNone /\ rpc' # "got_size") =>
     IF Unpack(size_data.bytes) > MAX_FRAME_SIZE
     THEN /\ rpc' = "except"
          /\ exc' = "ValueError"
          /\ pushed' = pushed
          /\ wire' = wire
     ELSE Unpack(size_data.bytes) = MAX_FRAME_SIZE =>
            /\ rpc' = "recv_frame"
            /\ n' = MAX_FRAME_SIZE

C6_MaxAccepted == rpc = "recv_frame" /\ n = MAX_FRAME_SIZE

\* C7: a frame is pushed only for a message received in full: every frame in
\* the buffer's history has exactly the length its prefix decoded to, and the
\* frames pushed on a connection are payloads of complete messages read from
\* it, so a stream that ends or stalls inside a prefix or a payload pushes
\* nothing; and the receiver turns to the next message only when everything
\* read so far is complete messages (after a short read the connection is
\* given up, not read on).
C7_OnlyCompleteFrames ==
  /\ \A i \in DOMAIN pushed : Len(pushed[i].data) = pushed[i].size
  /\ Len(ConnFrames) <= Len(Deframe(rx))
  /\ ConnFrames = Take(Deframe(rx), Len(ConnFrames))
  /\ rpc = "inner" => Residue(rx) = <<>>

\* The producer closed its end after one byte of a two-byte payload: the
\* connection is being given up and nothing has been pushed.
C7_Witness ==
  /\ rpc = "except"
  /\ exc = "error"
  /\ eof
  /\ running
  /\ Len(rx) = 5
  /\ Unpack(Take(rx, 4)) = 2
  /\ pushed = <<>>

IsStamp(b) == b > StampBase /\ b <= StampBase + MaxSends
Stamps(d) == SelectSeq(d, IsStamp)
RECURSIVE Flatten(_)
Flatten(ss) == IF ss = <<>> THEN <<>> ELSE Head(ss) \o Flatten(Tail(ss))
Increasing(s) == \A i, j \in DOMAIN s : i < j => s[i] < s[j]

\* C8: frames enter the buffer in the order their bytes were sent, and the
\* frames one consumer yields are strictly increasing in push position.
C8_Ordering ==
  /\ Increasing(Flatten([i \in DOMAIN pushed |-> Stamps(pushed[i].data)]))
  /\ \A c \in Consumers : Increasing(yielded[c])

\* A consumer has yielded two frames with a gap between them.
C8_Witness ==
  \E c \in Consumers : Len(yielded[c]) >= 2 /\ yielded[c][2] > yielded[c][1] + 1

\* C9: once stop() has returned the receive loop terminates (it has ended or
\* can still take a step towards its end), and when it has ended the producer
\* connection and the listening socket are closed.
C9_StopTerminal ==
  spc = "done" =>
     /\ rpc # "done" => ENABLED Receiver
     /\ rpc = "done" => /\ current_client = "None"
                        /\ conn # "accepted"
                        /\ server_socket # "listening"

\* C10: after a failed bind the running receiver binds again, so once the
\* port is free it comes to listen.
C10_BindRetried ==
  (running /\ port_free /\ server_socket = "unbound")
     ~> (server_socket = "listening" \/ ~running)

\* The receiver thread is scheduled as long as it can take a step.
FairSpec == Spec /\ WF_vars(Receiver)

\* The receiver waits in accept() on its listening socket, holding no client.
Listening ==
  /\ rpc = "accept"
  /\ server_socket = "listening"
  /\ current_client = "None"
  /\ conn # "accepted"

\* An exception has ended the reading of the current connection.
Aborting == rpc = "except" /\ current_client = "sock"

Stalled ==
  /\ InRecvall
  /\ conn = "accepted"
  /\ wire = <<>>
  /\ ~eof
  /\ nsent = MaxSends

ProducerConnected == current_client # "None"

\* C13: the boolean that /status reports (server_running, the only one it
\* has) is true exactly when a producer connection is active, so it is false
\* while the running receiver waits for a producer.
C13_StatusReportsProducer == status.server_running <=> ProducerConnected

\* The step of a generator whose client has gone: it pops nothing.
NoPopAfterClose ==
  \A c \in Consumers : ~sink_open[c] => yielded'[c] = yielded[c]

\* C14: once a generator's client has disconnected the generator pops no
\* further frame from the buffer, and it eventually stops.
C14_SinkCloseStops ==
  /\ [][NoPopAfterClose]_vars
  /\ \A c \in Consumers : ~sink_open[c] ~> cpc[c] = "closed"

\* How a generator does stop (not a claim's formula): only after its client
\* has gone, and only in the step that pops and yields one more frame.
StopsOnlyAtYield ==
  [][\A c \in Consumers :
       (cpc[c] # "closed" /\ cpc'[c] = "closed") =>
          (~sink_open[c] /\ Len(yielded'[c]) = Len(yielded[c]) + 1)]_vars

\* A generator that finds the buffer empty at its test takes nothing in that
\* step and stays at the test.
EmptyStep ==
  \A c \in Consumers :
     (cpc[c] = "poll" /\ Empty(frame_queue)) =>
        (cpc'[c] = "poll" /\ yielded'[c] = yielded[c])

\* A pop hands out the oldest buffered frame and removes exactly that one.
PopStep ==
  \A c \in Consumers :
     yielded'[c] # yielded[c] =>
        /\ frame_queue # <<>>
        /\ yielded'[c] = Append(yielded[c], Head(frame_queue))
        /\ frame_queue' = Tail(frame_queue)

\* C15: on an empty buffer the generator's test-and-get takes nothing and
\* leaves the buffer alone; otherwise it returns the oldest frame and removes
\* it, so what a generator has yielded followed by what is still buffered is
\* strictly in push order: the frames of a buffer that gets no pushes come
\* out in push order, each once, until the buffer is empty.
C15_TryPop ==
  /\ [](\A c \in Consumers : Increasing(yielded[c] \o frame_queue))
  /\ [][EmptyStep]_vars
  /\ [][PopStep]_vars

\* The receive loop has ended with two frames buffered, so nothing is pushed
\* any more; one generator has popped both in order and is back at its test
\* on the empty buffer.
C15_Witness ==
  /\ rpc = "done"
  /\ pushed # <<>>
  /\ evicted = {}
  /\ frame_queue = <<>>
  /\ \E c \in Consumers : yielded[c] = <<1, 2>> /\ cpc[c] = "poll"

\* C16: the receiver holds at most one open client socket: the accepted
\* connection is open exactly while self.current_client refers to it, and the
\* receiver is at the top of its loop or in accept() only with the previous
\* connection closed and forgotten.
C16_OneConnection ==
  /\ (conn = "accepted") <=> (current_client = "sock")
  /\ rpc \in {"loop", "setup", "accept"} =>
        (current_client = "None" /\ conn # "accepted")

\* A connection is open that was accepted after an earlier one, on which the
\* producer had written, was closed; nothing has been read from it yet.
C16_Witness ==
  /\ running
  /\ current_client = "sock"
  /\ rpc = "recv_size"
  /\ rx = <<>>
  /\ wire = <<>>
  /\ nsent > 0

\* The receiver's get() removes a frame only from a buffer that holds N
\* frames at that moment, and removes exactly one.
EvictStep ==
  evicted' # evicted =>
     /\ Len(frame_queue) = frame_queue_maxsize
     /\ Len(frame_queue') = Len(frame_queue) - 1

\* C17: a push evicts only from a full buffer: under every interleaving with
\* the generators no frame is evicted while the buffer is below capacity.
C17_EvictOnlyWhenFull == [][EvictStep]_vars

\* Each loop has dealt with everything the producer has given it and waits
\* for more: in accept() with nobody waiting, or in recv() on a connection
\* that is open and has nothing to read.
PrimaryAtRest ==
  \/ rpc = "accept" /\ server_socket = "listening" /\ conn = "none"
  \/ InRecvall /\ conn = "accepted" /\ wire = <<>> /\ ~eof
BackupAtRest ==
  \/ b_rpc = "accept" /\ b_conn = "none"
  \/ b_rpc \in {"recv_size", "recv_frame"} /\ b_wire = <<>> /\ ~b_eof

\* C18: fed the same connects, bytes and disconnects, the receive loops of
\* stream_server.py and stream_server_working_backup.py have, whenever both
\* wait for more input, pushed the same frames and are both connected or both
\* listening.
C18_SameAsBackup ==
  (running /\ PrimaryAtRest /\ BackupAtRest) =>
     /\ pushed = b_pushed
     /\ (conn = "accepted") <=> (b_conn = "accepted")

\* How many times frame i occurs in the sequence s.
Occurrences(s, i) == Cardinality({k \in DOMAIN s : s[k] = i})

\* The places frame i is in: buffered, evicted, yielded by a generator.
RECURSIVE YieldCount(_, _)
YieldCount(S, i) ==
  IF S = {} THEN 0
  ELSE LET c == CHOOSE x \in S : TRUE IN
         Occurrences(yielded[c], i) + YieldCount(S \ {c}, i)
Holders(i) ==
  Occurrences(frame_queue, i) + (IF i \in evicted THEN 1 ELSE 0) + YieldCount(Consumers, i)

\* C19: every pushed frame is in exactly one place: still buffered, evicted
\* by the receiver, or yielded once by one generator; so no frame is ever
\* yielded twice or to two generators.
C19_YieldedAtMostOnce ==
  /\ \A i \in DOMAIN pushed : Holders(i) = 1
  /\ \A i \in DOMAIN pushed : YieldCount(Consumers, i) <= 1

\* Of three frames one was evicted and the other two went to different
\* generators.
C19_Witness ==
  /\ Len(pushed) = 3
  /\ evicted # {}
  /\ \A c \in Consumers : Len(yielded[c]) = 1

\* A step of the exception handler, of the finally clause or of stop()
\* leaves the buffer and its history as they are.
CleanupStep ==
  ((rpc \in {"except", "finally"} /\ rpc' # rpc) \/ spc' # spc) =>
     (frame_queue' = frame_queue /\ pushed' = pushed)

\* Every marked byte of a frame pushed in this pass of the loop was received
\* in this pass.
NoCarryOver ==
  \A k \in DOMAIN ConnFrames : \A j \in DOMAIN ConnFrames[k] :
     IsStamp(ConnFrames[k][j]) => \E m \in DOMAIN rx : rx[m] = ConnFrames[k][j]

\* C20: closing a producer connection (in the exception handler, in the
\* finally clause or by stop()) leaves the buffered frames and their order
\* unchanged, and no frame is made of bytes received on an earlier
\* connection.
C20_AbortKeepsBuffer == [][CleanupStep]_vars /\ [](NoCarryOver)

\* The second send was lost with the connection it was written to; the frames
\* of the first and of the third send, from different connections, are both
\* buffered, in that order.
C20_Witness ==
  /\ running
  /\ rx = <<0, 0, 0, 1, Stamp(3)>>
  /\ Len(pushed) = 2
  /\ pushed[1].data = <<Stamp(1)>>
  /\ pushed[2].data = <<Stamp(3)>>
  /\ frame_queue = <<1, 2>>

====
